---------------------------- MODULE Spec2Model ----------------------------
(***************************************************************************)
(* Model of evaluate_signal (src/agent.py), the rule pipeline that turns   *)
(* one market snapshot into a trade signal.                                *)
(*                                                                         *)
(* Numbers are exact decimals held as integers:                            *)
(*   prices, ATR, distances   in units of 1e-6   (1.0850  = 1085000)       *)
(*   RSI values               in units of 0.1    (18.5    = 185)           *)
(*   confidence and its parts in units of 0.01   (70.8    = 7080)          *)
(*   rrr                      in units of 0.01   (2.00    = 200)           *)
(* A Python value is a one-element sequence <<v>>; Python None is <<>>.    *)
(* The input mapping is a function whose DOMAIN is the set of keys that    *)
(* are present.                                                            *)
(***************************************************************************)
EXTENDS Integers, Sequences, FiniteSets, TLC

None == <<>>
Some(v) == <<v>>
Val(x) == x[1]

\* dict.get(key, default)
Get(d, key, default) == IF key \in DOMAIN d THEN d[key] ELSE default

\* truthiness of an optional bool / an optional str
TruthyBool(x) == x # None /\ Val(x)
TruthyStr(x) == x # None /\ Val(x) # ""

\* str.lower() on the labels the inputs use
Lower(s) ==
    CASE s = "Shooting_Star" -> "shooting_star"
      [] s = "Double_Top" -> "double_top"
      [] OTHER -> s

Abs(x) == IF x < 0 THEN 0 - x ELSE x

\* n/d rounded to the nearest integer, ties to even (Python round()), d # 0
RoundHalfEven(n, d) ==
    LET nn == IF d < 0 THEN 0 - n ELSE n
        dd == Abs(d)
        q == nn \div dd
        r == nn % dd
    IN  IF 2 * r < dd THEN q
        ELSE IF 2 * r > dd THEN q + 1
        ELSE IF q % 2 = 0 THEN q ELSE q + 1

\* faulty variant of Round5: prices rounded to 4 decimals
Round4(x) == 100 * RoundHalfEven(x, 100)

\* round(price, 5): 1e-6 units to the nearest 1e-5
Round5(x) == 10 * RoundHalfEven(x, 10)

\* round(score, 1): 0.01 units to the nearest 0.1
Round1(x) == 10 * RoundHalfEven(x, 10)

\* round(tp_distance / sl_distance, 2) in 0.01 units
RoundedRatio(tp, sl) == RoundHalfEven(100 * tp, sl)

-----------------------------------------------------------------------------
(* Inputs *)

MaxDefects == 2

required_fields ==
    <<"instrument", "timeframe", "close", "high", "low",
      "rsi_4h", "rsi_daily", "atr", "ema50_daily">>

\* the required fields of the request schema (MarketDataRequest)
SchemaRequired ==
    {"instrument", "timeframe", "timestamp", "close", "high", "low",
     "rsi_4h", "rsi_daily", "atr", "ema50_daily"}

OptionalFields ==
    {"candle_type", "pattern", "divergence", "recent_swing_low",
     "recent_swing_high", "strict_mode"}

\* close, ema50_daily: bullish (with a 6th decimal), equal, bearish
PricePairs == {<<1085006, 1080000>>, <<1080000, 1080000>>, <<1080000, 1085000>>}
AtrValues == {0 - 2500, 0, 3, 20, 2500}
Rsi4hValues == {50, 200, 800, 950}
RsiDailyValues == {300, 400, 500, 600, 700}
CandleValues == {"hammer", "bullish_pin_bar", "Shooting_Star", "bearish_pin_bar"}
PatternValues == {"double_bottom", "Double_Top"}
\* recent_swing_low, recent_swing_high
SwingPairs ==
    {<<None, None>>, <<Some(1082000), Some(1095000)>>,
     <<Some(1090000), Some(1075000)>>}
TimeframeValues == {"4H", "1H"}

Snapshot(tf, pp, atr, r4, rd, ct, pat, dv, sw, sm) ==
    [instrument |-> Some("EURUSD"), timeframe |-> Some(tf),
     timestamp |-> Some("2024-01-15T10:00:00Z"),
     close |-> Some(pp[1]), high |-> Some(1086500), low |-> Some(1083500),
     rsi_4h |-> Some(r4), rsi_daily |-> Some(rd), atr |-> Some(atr),
     ema50_daily |-> Some(pp[2]),
     candle_type |-> ct, pattern |-> pat, divergence |-> dv,
     recent_swing_low |-> sw[1], recent_swing_high |-> sw[2],
     strict_mode |-> sm]

\* every combination of the value sets, all fields present
GridInputs ==
    {Snapshot(tf, pp, atr, r4, rd, Some(ct), Some(pat), Some(dv), sw, Some(sm)) :
        tf \in TimeframeValues, pp \in PricePairs, atr \in AtrValues,
        r4 \in Rsi4hValues, rd \in RsiDailyValues, ct \in CandleValues,
        pat \in PatternValues, dv \in BOOLEAN, sw \in SwingPairs,
        sm \in BOOLEAN}

\* the documented request example (main.py)
ExampleInput ==
    Snapshot("4H", <<1085000, 1080000>>, 2500, 185, 452, Some("hammer"),
             Some("double_bottom"), Some(TRUE), <<Some(1082000), None>>,
             Some(FALSE))

\* a bearish counterpart of the example
ShortInput ==
    Snapshot("4H", <<1080000, 1085000>>, 2500, 815, 548, Some("Shooting_Star"),
             Some("Double_Top"), Some(TRUE), <<Some(1070000), Some(1083000)>>,
             Some(TRUE))

OtherTimeframeInput == [ExampleInput EXCEPT !.timeframe = Some("1H")]

BaseInputs == {ExampleInput, ShortInput, OtherTimeframeInput}

\* base with the keys in missing removed and the keys in nulls set to None
Defective(base, missing, nulls) ==
    [k \in (DOMAIN base) \ missing |-> IF k \in nulls THEN None ELSE base[k]]

\* the bases with at most MaxDefects required fields removed or set to None
DefectSets ==
    {mn \in (SUBSET SchemaRequired) \X (SUBSET SchemaRequired) :
        /\ mn[1] \cap mn[2] = {}
        /\ Cardinality(mn[1] \cup mn[2]) <= MaxDefects}

DefectiveInputs == {Defective(b, mn[1], mn[2]) : b \in BaseInputs, mn \in DefectSets}

\* the bases with each optional field absent, None or as given
OptionalVariants ==
    {Defective(b, m, n) :
        b \in {ExampleInput, ShortInput},
        m \in SUBSET OptionalFields, n \in SUBSET OptionalFields}

Inputs == GridInputs \cup DefectiveInputs \cup OptionalVariants

-----------------------------------------------------------------------------
(* State *)

VARIABLES
    data,                  \* the argument of evaluate_signal
    pc,                    \* the module about to run, "done" or "raised"
    trend,
    confluence_count, confluence_details,
    rsi_confluence_met, candle_confluence_met,
    pattern_confluence_met, trend_confluence_met,
    signal_direction, entry_price,
    sl_distance, tp_distance, stop_loss, take_profit, rrr,
    confluence_percentage, trend_score, candle_score, confidence_score,
    result,                \* the returned record
    arg,                   \* the caller's record as it was passed
    returns                \* <<input, outcome>> of the calls that ended

confVars ==
    <<confluence_count, confluence_details, rsi_confluence_met,
      candle_confluence_met, pattern_confluence_met, trend_confluence_met>>
riskVars ==
    <<signal_direction, entry_price, sl_distance, tp_distance, stop_loss,
      take_profit, rrr>>
scoreVars == <<confluence_percentage, trend_score, candle_score, confidence_score>>
callVars == <<arg, returns>>
vars == <<data, pc, trend, confVars, riskVars, scoreVars, result, callVars>>

\* faulty variant of Abstain: the record keeps the close as its entry
AbstainKeepsEntry(d, reason, confidence) ==
    [status |-> "no_trade", reason |-> reason,
     entry |-> Get(d, "close", None), stop_loss |-> None,
     take_profit |-> None, rrr |-> None,
     confidence |-> confidence,
     instrument |-> Get(d, "instrument", None),
     timeframe |-> Get(d, "timeframe", None),
     timestamp |-> Get(d, "timestamp", None)]

\* the no_trade record of the early returns
Abstain(d, reason, confidence) ==
    [status |-> "no_trade", reason |-> reason,
     entry |-> None, stop_loss |-> None, take_profit |-> None, rrr |-> None,
     confidence |-> confidence,
     instrument |-> Get(d, "instrument", None),
     timeframe |-> Get(d, "timeframe", None),
     timestamp |-> Get(d, "timestamp", None)]

NoResult == [status |-> "pending"]

\* the first call, its argument drawn from S
InitWith(S) ==
    /\ data \in S
    /\ arg = data
    /\ returns = {}
    /\ pc = "validate"
    /\ trend = ""
    /\ confluence_count = 0
    /\ confluence_details = <<>>
    /\ rsi_confluence_met = FALSE
    /\ candle_confluence_met = FALSE
    /\ pattern_confluence_met = FALSE
    /\ trend_confluence_met = FALSE
    /\ signal_direction = ""
    /\ entry_price = 0
    /\ sl_distance = 0
    /\ tp_distance = 0
    /\ stop_loss = 0
    /\ take_profit = 0
    /\ rrr = 0
    /\ confluence_percentage = 0
    /\ trend_score = 0
    /\ candle_score = 0
    /\ confidence_score = 0
    /\ result = NoResult

Init == InitWith(Inputs)

-----------------------------------------------------------------------------
(* Module 1: data validation *)

missing_fields(d) == LET Missing(f) == f \notin DOMAIN d
                     IN  SelectSeq(required_fields, Missing)

none_fields(d) == LET IsNone(f) == d[f] = None
                  IN  SelectSeq(required_fields, IsNone)

\* faulty variant of TimeframeOk: the hourly chart is let through as well
TimeframeOkHourly(d) == d["timeframe"] \in {Some("4H"), Some("1H")}

TimeframeOk(d) == d["timeframe"] = Some("4H")

Validate ==
    /\ pc = "validate"
    /\ IF missing_fields(data) # <<>>
         THEN /\ result' = Abstain(data, "data_invalid", 0)
              /\ pc' = "done"
         ELSE IF none_fields(data) # <<>>
         THEN /\ result' = Abstain(data, "data_invalid", 0)
              /\ pc' = "done"
         ELSE IF ~TimeframeOk(data)
         THEN /\ result' = Abstain(data, "preconditions_not_met", 0)
              /\ pc' = "done"
         ELSE /\ result' = result
              /\ pc' = "trend"
    /\ UNCHANGED <<data, trend, confVars, riskVars, scoreVars, callVars>>

-----------------------------------------------------------------------------
(* Module 2: trend filter *)

\* faulty variant of TrendOf: equality classified bullish
TrendOfNonStrict(close, ema50_daily) ==
    IF close >= ema50_daily THEN "bullish" ELSE "bearish"

TrendOf(close, ema50_daily) ==
    IF close > ema50_daily THEN "bullish" ELSE "bearish"

TrendFilter ==
    /\ pc = "trend"
    /\ trend' = TrendOf(Val(data["close"]), Val(data["ema50_daily"]))
    /\ pc' = "confluence"
    /\ UNCHANGED <<data, confVars, riskVars, scoreVars, result, callVars>>

-----------------------------------------------------------------------------
(* Module 3: confluence analysis *)

bullish_candles == {"hammer", "bullish_engulfing", "morning_star", "bullish_pin_bar"}
bearish_candles == {"shooting_star", "bearish_engulfing", "evening_star", "bearish_pin_bar"}
bullish_patterns ==
    {"double_bottom", "inverse_head_shoulders", "ascending_triangle",
     "bullish_flag", "cup_and_handle"}
bearish_patterns ==
    {"double_top", "head_shoulders", "descending_triangle", "bearish_flag",
     "rising_wedge"}

\* faulty variant of RsiConfluenceMet: strict mode leaves the normal threshold
RsiConfluenceMetNormalOnly(t, strict_mode, rsi_4h) ==
    IF t = "bullish" THEN rsi_4h <= 200 ELSE rsi_4h >= 800

\* confluence 1: RSI extreme (strict_mode as read by data.get)
RsiConfluenceMet(t, strict_mode, rsi_4h) ==
    IF t = "bullish"
      THEN IF TruthyBool(strict_mode) THEN rsi_4h <= 50 ELSE rsi_4h <= 200
      ELSE IF TruthyBool(strict_mode) THEN rsi_4h >= 950 ELSE rsi_4h >= 800

RsiDetail(t, strict_mode) ==
    IF t = "bullish"
      THEN IF TruthyBool(strict_mode) THEN "RSI 4H extremely oversold"
                                      ELSE "RSI 4H oversold"
      ELSE IF TruthyBool(strict_mode) THEN "RSI 4H extremely overbought"
                                      ELSE "RSI 4H overbought"

\* confluence 2: candle confirmation
CandleConfluenceMet(t, candle_type) ==
    /\ TruthyStr(candle_type)
    /\ \/ t = "bullish" /\ Lower(Val(candle_type)) \in bullish_candles
       \/ t = "bearish" /\ Lower(Val(candle_type)) \in bearish_candles

\* confluence 3, first half: chart pattern
PatternMatched(t, pattern) ==
    /\ TruthyStr(pattern)
    /\ \/ t = "bullish" /\ Lower(Val(pattern)) \in bullish_patterns
       \/ t = "bearish" /\ Lower(Val(pattern)) \in bearish_patterns

\* confluence 4: daily trend alignment
TrendConfluenceMet(t, rsi_daily) ==
    IF t = "bullish" THEN rsi_daily < 700 ELSE rsi_daily > 300

\* faulty variant of Detail: the string is appended outside the condition
DetailAlways(cond, text) == <<text>>

Detail(cond, text) == IF cond THEN <<text>> ELSE <<>>
Count(cond) == IF cond THEN 1 ELSE 0

\* faulty variant of NotEnoughConfluences: threshold off by one
NotEnoughConfluencesBelowTwo(count) == count < 2

NotEnoughConfluences(count) == count < 3

ConfluenceAnalysis ==
    /\ pc = "confluence"
    /\ LET strict_mode == Get(data, "strict_mode", Some(FALSE))
           candle_type == Get(data, "candle_type", None)
           pattern == Get(data, "pattern", None)
           divergence == Get(data, "divergence", Some(FALSE))
           rsiMet == RsiConfluenceMet(trend, strict_mode, Val(data["rsi_4h"]))
           candleMet == CandleConfluenceMet(trend, candle_type)
           patMatched == PatternMatched(trend, pattern)
           patMet == patMatched \/ TruthyBool(divergence)
           trendMet == TrendConfluenceMet(trend, Val(data["rsi_daily"]))
           count == Count(rsiMet) + Count(candleMet) + Count(patMet) + Count(trendMet)
           details ==
               Detail(rsiMet, RsiDetail(trend, strict_mode))
               \o Detail(candleMet, IF trend = "bullish" THEN "Bullish candle pattern"
                                                       ELSE "Bearish candle pattern")
               \o Detail(patMatched, IF trend = "bullish" THEN "Bullish pattern"
                                                        ELSE "Bearish pattern")
               \o Detail(TruthyBool(divergence), "Price/RSI divergence detected")
               \o Detail(trendMet, "Daily trend aligned")
       IN  /\ rsi_confluence_met' = rsiMet
           /\ candle_confluence_met' = candleMet
           /\ pattern_confluence_met' = patMet
           /\ trend_confluence_met' = trendMet
           /\ confluence_count' = count
           /\ confluence_details' = details
           /\ IF NotEnoughConfluences(count)
                THEN /\ result' = Abstain(data, "not_enough_confluences", 0)
                     /\ pc' = "done"
                ELSE /\ result' = result
                     /\ pc' = "entry"
    /\ UNCHANGED <<data, trend, riskVars, scoreVars, callVars>>

-----------------------------------------------------------------------------
(* Module 4: entry signal generation *)

DirectionOf(t) == IF t = "bullish" THEN "long" ELSE "short"

\* faulty variant of EntrySignal: the close is rounded in the caller's record
EntrySignalRoundsInput ==
    /\ pc = "entry"
    /\ signal_direction' = DirectionOf(trend)
    /\ entry_price' = Val(data["close"])
    /\ data' = [data EXCEPT !["close"] = Some(Round5(Val(data["close"])))]
    /\ pc' = "risk"
    /\ UNCHANGED <<trend, confVars, sl_distance, tp_distance, stop_loss,
                   take_profit, rrr, scoreVars, result, callVars>>

EntrySignal ==
    /\ pc = "entry"
    /\ signal_direction' = DirectionOf(trend)
    /\ entry_price' = Val(data["close"])
    /\ pc' = "risk"
    /\ UNCHANGED <<data, trend, confVars, sl_distance, tp_distance, stop_loss,
                   take_profit, rrr, scoreVars, result, callVars>>

-----------------------------------------------------------------------------
(* Module 5: stop loss and take profit *)

\* faulty variant of SlDistance: a supplied swing level always sets the distance
SlDistanceStructureOnly(dir, entry, atr, recent_swing_low, recent_swing_high) ==
    IF dir = "long" /\ recent_swing_low # None
      THEN entry - Val(recent_swing_low)
    ELSE IF dir = "short" /\ recent_swing_high # None
      THEN Val(recent_swing_high) - entry
    ELSE 1 * atr

\* faulty variant of SlDistance: the swing levels are ignored
SlDistanceAtrOnly(dir, entry, atr, recent_swing_low, recent_swing_high) ==
    1 * atr

\* the stop-loss distance: 1.0 * atr, widened to the structure distance
SlDistance(dir, entry, atr, recent_swing_low, recent_swing_high) ==
    LET atr_distance == 1 * atr
    IN  IF dir = "long" /\ recent_swing_low # None
          THEN LET structure_sl_distance == entry - Val(recent_swing_low)
               IN  IF structure_sl_distance > atr_distance
                     THEN structure_sl_distance ELSE atr_distance
        ELSE IF dir = "short" /\ recent_swing_high # None
          THEN LET structure_sl_distance == Val(recent_swing_high) - entry
               IN  IF structure_sl_distance > atr_distance
                     THEN structure_sl_distance ELSE atr_distance
        ELSE atr_distance

\* faulty variant of TpDistance: a 3:1 target
TpDistanceTriple(sl) == 3 * sl

TpDistance(sl) == 2 * sl

StopLossLevel(dir, entry, sl) == IF dir = "long" THEN entry - sl ELSE entry + sl
TakeProfitLevel(dir, entry, tp) == IF dir = "long" THEN entry + tp ELSE entry - tp

StopTakeProfit ==
    /\ pc = "risk"
    /\ LET sl == SlDistance(signal_direction, entry_price, Val(data["atr"]),
                            Get(data, "recent_swing_low", None),
                            Get(data, "recent_swing_high", None))
           tp == TpDistance(sl)
       IN  /\ sl_distance' = sl
           /\ tp_distance' = tp
           /\ IF sl = 0
                THEN \* tp_distance / sl_distance raises ZeroDivisionError
                     /\ stop_loss' = StopLossLevel(signal_direction, entry_price, sl)
                     /\ take_profit' = TakeProfitLevel(signal_direction, entry_price, tp)
                     /\ UNCHANGED <<entry_price, rrr>>
                     /\ pc' = "raised"
                ELSE /\ entry_price' = Round5(entry_price)
                     /\ stop_loss' =
                            Round5(StopLossLevel(signal_direction, entry_price, sl))
                     /\ take_profit' =
                            Round5(TakeProfitLevel(signal_direction, entry_price, tp))
                     /\ rrr' = RoundedRatio(tp, sl)
                     /\ pc' = "score"
    /\ UNCHANGED <<data, trend, confVars, signal_direction, scoreVars, result,
                   callVars>>

-----------------------------------------------------------------------------
(* Module 6: confidence scoring (0.01 units) *)

\* (confluence_count / 4) * 25
ConfluencePercentage(count) == (count * 2500) \div 4

\* faulty variant of TrendScore: tier boundaries inclusive
TrendScoreInclusive(t, rsi_daily) ==
    IF t = "bullish"
      THEN IF rsi_daily <= 500 THEN 2000
           ELSE IF rsi_daily <= 600 THEN 1500
           ELSE IF rsi_daily <= 700 THEN 1000
           ELSE 500
      ELSE IF rsi_daily >= 500 THEN 2000
           ELSE IF rsi_daily >= 400 THEN 1500
           ELSE IF rsi_daily >= 300 THEN 1000
           ELSE 500

TrendScore(t, rsi_daily) ==
    IF t = "bullish"
      THEN IF rsi_daily < 500 THEN 2000
           ELSE IF rsi_daily < 600 THEN 1500
           ELSE IF rsi_daily < 700 THEN 1000
           ELSE 500
      ELSE IF rsi_daily > 500 THEN 2000
           ELSE IF rsi_daily > 400 THEN 1500
           ELSE IF rsi_daily > 300 THEN 1000
           ELSE 500

level_quality_score == 2000

strong_patterns ==
    {"hammer", "shooting_star", "bullish_engulfing", "bearish_engulfing",
     "morning_star", "evening_star"}

\* faulty variant of CandleScore: 10 points for a non-strong pattern
CandleScoreWeakTen(candle_met, candle_type) ==
    IF candle_met
      THEN IF TruthyStr(candle_type) /\ Lower(Val(candle_type)) \in strong_patterns
             THEN 2000 ELSE 1000
      ELSE 800

CandleScore(candle_met, candle_type) ==
    IF candle_met
      THEN IF TruthyStr(candle_type) /\ Lower(Val(candle_type)) \in strong_patterns
             THEN 2000 ELSE 1200
      ELSE 800

market_conditions_score == 1500

ConfidenceTooLow(score) == score < 7000

ConfidenceScoring ==
    /\ pc = "score"
    /\ LET cp == ConfluencePercentage(confluence_count)
           ts == TrendScore(trend, Val(data["rsi_daily"]))
           cs == CandleScore(candle_confluence_met, Get(data, "candle_type", None))
           total == Round1(cp + ts + level_quality_score + cs
                           + market_conditions_score)
       IN  /\ confluence_percentage' = cp
           /\ trend_score' = ts
           /\ candle_score' = cs
           /\ confidence_score' = total
           /\ IF ConfidenceTooLow(total)
                THEN /\ result' = Abstain(data, "confidence_too_low", total)
                     /\ pc' = "done"
                ELSE /\ result' = result
                     /\ pc' = "final"
    /\ UNCHANGED <<data, trend, confVars, riskVars, callVars>>

-----------------------------------------------------------------------------
(* Module 7: final risk check and result *)

\* faulty variant of RiskInvalid: a level equal to the entry is let through
RiskInvalidNonStrict(dir, entry, sl, tp) ==
    IF dir = "long" THEN sl > entry \/ tp < entry
                    ELSE sl < entry \/ tp > entry

\* stop loss or take profit on the wrong side of the (rounded) entry
RiskInvalid(dir, entry, sl, tp) ==
    IF dir = "long" THEN sl >= entry \/ tp <= entry
                    ELSE sl <= entry \/ tp >= entry

\* faulty variant of Signal: the confluence component reported as confidence
SignalReportsComponent(d, dir, entry, sl, tp, ratio, confidence) ==
    [status |-> dir, reason |-> "all_conditions_met",
     entry |-> Some(entry), stop_loss |-> Some(sl), take_profit |-> Some(tp),
     rrr |-> Some(ratio),
     confidence |-> confluence_percentage,
     instrument |-> Get(d, "instrument", None),
     timeframe |-> Get(d, "timeframe", None),
     timestamp |-> Get(d, "timestamp", None)]

Signal(d, dir, entry, sl, tp, ratio, confidence) ==
    [status |-> dir, reason |-> "all_conditions_met",
     entry |-> Some(entry), stop_loss |-> Some(sl), take_profit |-> Some(tp),
     rrr |-> Some(ratio),
     confidence |-> confidence,
     instrument |-> Get(d, "instrument", None),
     timeframe |-> Get(d, "timeframe", None),
     timestamp |-> Get(d, "timestamp", None)]

FinalDecision ==
    /\ pc = "final"
    /\ IF RiskInvalid(signal_direction, entry_price, stop_loss, take_profit)
         THEN result' = Abstain(data, "invalid_risk_parameters", confidence_score)
         ELSE result' = Signal(data, signal_direction, entry_price, stop_loss,
                               take_profit, rrr, confidence_score)
    /\ pc' = "done"
    /\ UNCHANGED <<data, trend, confVars, riskVars, scoreVars, callVars>>

Next ==
    \/ Validate
    \/ TrendFilter
    \/ ConfluenceAnalysis
    \/ EntrySignal
    \/ StopTakeProfit
    \/ ConfidenceScoring
    \/ FinalDecision

Spec == Init /\ [][Next]_vars

-----------------------------------------------------------------------------
(* Repeated calls: the caller invokes evaluate_signal again *)

MaxReturns == 2

\* what the caller observes of a call that ended
Outcome == IF pc = "raised" THEN [status |-> "raised"] ELSE result

\* a valid input with a zero ATR and one with a very small ATR
ZeroAtrInput == [ShortInput EXCEPT !.atr = Some(0), !.recent_swing_high = None]
SmallAtrInput ==
    [ExampleInput EXCEPT !.close = Some(1085006), !.atr = Some(3),
                         !.recent_swing_low = None]
\* 2 of 4 confluences
WeakInput ==
    [ExampleInput EXCEPT !.rsi_4h = Some(500), !.candle_type = None]

CallInputs ==
    {ExampleInput, ShortInput, OtherTimeframeInput, ZeroAtrInput,
     SmallAtrInput, WeakInput,
     [ExampleInput EXCEPT !.close = Some(1085006)],
     Defective(ExampleInput, {"timestamp"}, {"atr"})}

\* the call has ended; the caller records it and calls again with a new
\* argument, and the new call starts with fresh locals
CallAgain ==
    /\ pc \in {"done", "raised"}
    /\ Cardinality(returns \cup {<<arg, Outcome>>}) <= MaxReturns
    /\ returns' = returns \cup {<<arg, Outcome>>}
    /\ data' \in CallInputs
    /\ arg' = data'
    /\ pc' = "validate"
    /\ trend' = ""
    /\ confluence_count' = 0
    /\ confluence_details' = <<>>
    /\ rsi_confluence_met' = FALSE
    /\ candle_confluence_met' = FALSE
    /\ pattern_confluence_met' = FALSE
    /\ trend_confluence_met' = FALSE
    /\ signal_direction' = ""
    /\ entry_price' = 0
    /\ sl_distance' = 0
    /\ tp_distance' = 0
    /\ stop_loss' = 0
    /\ take_profit' = 0
    /\ rrr' = 0
    /\ confluence_percentage' = 0
    /\ trend_score' = 0
    /\ candle_score' = 0
    /\ confidence_score' = 0
    /\ result' = NoResult

InitCalls == InitWith(CallInputs)

NextCalls == Next \/ CallAgain

SpecCalls == InitCalls /\ [][NextCalls]_vars

-----------------------------------------------------------------------------
(* Vocabulary of the properties *)

Returned == pc = "done"
Accepted == Returned /\ result.status \in {"long", "short"}
Abstained(reason) ==
    Returned /\ result.status = "no_trade" /\ result.reason = reason

Defect(f) == f \notin DOMAIN data \/ data[f] = None
WellFormed == \A f \in SchemaRequired : ~Defect(f)

\* validation passed: the trend filter has run
Validated == trend # ""
\* the confidence scorer has run
Scored == pc \in {"final", "done"} /\ candle_score # 0

NumMet ==
    Count(rsi_confluence_met) + Count(candle_confluence_met)
    + Count(pattern_confluence_met) + Count(trend_confluence_met)

AbstainReasons ==
    {"data_invalid", "preconditions_not_met", "not_enough_confluences",
     "confidence_too_low", "invalid_risk_parameters"}

-----------------------------------------------------------------------------
(* Properties *)

\* C1: on every input whose required fields are present and non-null,
\* evaluate_signal raises no exception and returns status long, short or
\* no_trade, a no_trade carrying one of the five abstain reasons.
C1_NeverRaises ==
    WellFormed =>
        /\ pc # "raised"
        /\ Returned =>
              /\ result.status \in {"long", "short", "no_trade"}
              /\ result.status = "no_trade" => result.reason \in AbstainReasons

\* C2: an input with exactly one required field of the data model removed
\* or None, all the others valid (timeframe "4H"), returns no_trade with
\* reason data_invalid.
C2_DefectIsDataInvalid ==
    Returned =>
        \A f \in SchemaRequired :
            (/\ Defect(f)
             /\ \A g \in SchemaRequired \ {f} : ~Defect(g)
             /\ f = "timeframe" \/ data["timeframe"] = Some("4H"))
                => Abstained("data_invalid")

\* C3: in an accepted long record stop_loss < entry < take_profit, in an
\* accepted short record take_profit < entry < stop_loss (rounded prices).
C3_StopDirection ==
    Accepted =>
        LET e == Val(result.entry)
            sl == Val(result.stop_loss)
            tp == Val(result.take_profit)
        IN  /\ result.status = "long" => sl < e /\ e < tp
            /\ result.status = "short" => tp < e /\ e < sl

\* an accepted short whose prices went through the widened structure stop
C3_Witness ==
    /\ Accepted
    /\ result.status = "short"
    /\ Val(result.stop_loss) - Val(result.entry) > Val(data["atr"])

\* C4: entry, stop_loss, take_profit and rrr of a returned record are all
\* None or all set, and they are set exactly when status is long or short.
C4_RiskFieldsTogether ==
    Returned =>
        LET present == {k \in {"entry", "stop_loss", "take_profit", "rrr"} :
                            result[k] # None}
        IN  /\ Cardinality(present) \in {0, 4}
            /\ Cardinality(present) = 4 <=> result.status \in {"long", "short"}

\* an abstain after the price levels were computed
C4_Witness ==
    /\ Abstained("invalid_risk_parameters")
    /\ result.entry = None
    /\ stop_loss # 0

\* C5: in an accepted record |take_profit - entry| is within 1e-2 of
\* 2 * |entry - stop_loss|, and rrr is 2.0.
C5_RewardIsTwiceRisk ==
    Accepted =>
        LET e == Val(result.entry)
            sl == Val(result.stop_loss)
            tp == Val(result.take_profit)
        IN  /\ Abs(Abs(tp - e) - 2 * Abs(e - sl)) <= 10000
            /\ Val(result.rrr) = 200

\* an accepted record whose rounded distances are not exactly 1 : 2
C5_Witness ==
    /\ Accepted
    /\ Abs(Val(result.take_profit) - Val(result.entry))
          # 2 * Abs(Val(result.entry) - Val(result.stop_loss))

\* C6: after validation, fewer than 3 satisfied confluences return
\* not_enough_confluences, 3 or 4 never do, and an accepted record has at
\* least 3 satisfied confluences.
C6_ConfluenceThreshold ==
    /\ (Returned /\ Validated) =>
          /\ NumMet < 3 => Abstained("not_enough_confluences")
          /\ NumMet >= 3 => result.reason # "not_enough_confluences"
    /\ Accepted => Validated /\ NumMet >= 3

\* exactly 2 of 4 confluences
C6_Witness == Abstained("not_enough_confluences") /\ NumMet = 2

C8_TimeframeGate ==
    (Returned /\ WellFormed /\ data["timeframe"] # Some("4H"))
        => Abstained("preconditions_not_met")

\* the documented 4/4 example on another timeframe
C8_Witness == Returned /\ data = OtherTimeframeInput

\* C9: an accepted record is long only with close > ema50_daily and short
\* only with close <= ema50_daily.
C9_DirectionFollowsTrend ==
    Accepted =>
        LET close == Val(data["close"])
            ema50_daily == Val(data["ema50_daily"])
        IN  /\ result.status = "long" <=> close > ema50_daily
            /\ result.status = "short" <=> close <= ema50_daily

\* an accepted short at close = ema50_daily
C9_Witness ==
    /\ Accepted
    /\ result.status = "short"
    /\ data["close"] = data["ema50_daily"]

\* the tiers of C10, in 0.01 units
C10_TrendTier ==
    LET rd == Val(data["rsi_daily"])
    IN  IF Val(data["close"]) > Val(data["ema50_daily"])
          THEN CASE rd < 500 -> 2000 [] rd >= 500 /\ rd < 600 -> 1500
                 [] rd >= 600 /\ rd < 700 -> 1000 [] OTHER -> 500
          ELSE CASE rd > 500 -> 2000 [] rd <= 500 /\ rd > 400 -> 1500
                 [] rd <= 400 /\ rd > 300 -> 1000 [] OTHER -> 500

C10_CandleTier ==
    IF ~candle_confluence_met THEN 800
    ELSE IF Lower(Val(data["candle_type"])) \in
              {"hammer", "shooting_star", "bullish_engulfing",
               "bearish_engulfing", "morning_star", "evening_star"}
      THEN 2000 ELSE 1200

\* C10: the confidence is round(25*count/4 + trend tier + 20 + candle tier
\* + 15, 1), and the confidence of every returned record is in [0, 100].
C10_ConfidenceFormula ==
    /\ Scored =>
          confidence_score =
              Round1((2500 * confluence_count) \div 4 + C10_TrendTier + 2000
                     + C10_CandleTier + 1500)
    /\ (Returned /\ Scored) => result.confidence = confidence_score
    /\ Returned => result.confidence >= 0 /\ result.confidence <= 10000

\* a scored record with a satisfied, non-strong candle
C10_Witness ==
    /\ Returned
    /\ Scored
    /\ candle_confluence_met
    /\ C10_CandleTier = 1200
    /\ result.confidence = 7080

C12_DocumentedExample ==
    (Returned /\ data = ExampleInput) =>
        /\ result.status = "long"
        /\ result.reason = "all_conditions_met"
        /\ confluence_count = 4
        /\ sl_distance = 3000
        /\ tp_distance = 6000
        /\ result.entry = Some(1085000)
        /\ result.stop_loss = Some(1082000)
        /\ result.take_profit = Some(1091000)
        /\ result.rrr = Some(200)
        /\ result.confidence = 10000

\* the example has been evaluated
C12_Witness == Returned /\ data = ExampleInput /\ result.status # "pending"

\* a valid 4H input went through the confluence gate, the price levels
\* and the confidence gate
PassedGates ==
    /\ Returned
    /\ Scored
    /\ result.reason # "confidence_too_low"

C14_DegenerateAtrFallsThrough ==
    (/\ pc \in {"done", "raised"}
     /\ Validated
     /\ confluence_count >= 3
     /\ Val(data["atr"]) <= 0
     /\ sl_distance <= 0)
        => Abstained("invalid_risk_parameters")
\* the price levels have been computed (or the division has raised)
RiskComputed == pc \in {"score", "final", "raised"} \/ (Returned /\ Scored)
\* the confluence engine has run
ConfluenceDone ==
    pc \in {"entry", "risk", "score", "final", "raised"} \/ (Returned /\ Validated)

Bullish == Val(data["close"]) > Val(data["ema50_daily"])

\* C15: the stop-loss distance is max(ATR, structure distance) when the
\* swing level of the trade's side is supplied and non-null, and exactly
\* ATR otherwise; the other side's swing level plays no part.
C15_StopDistance ==
    RiskComputed =>
        LET entry == Val(data["close"])
            atr == Val(data["atr"])
            swing == IF Bullish THEN Get(data, "recent_swing_low", None)
                                ELSE Get(data, "recent_swing_high", None)
            structure == IF Bullish THEN entry - Val(swing) ELSE Val(swing) - entry
        IN  sl_distance =
                IF swing = None THEN atr
                ELSE IF structure > atr THEN structure ELSE atr

\* a long with both swing levels supplied and a negative structure distance
C15_Witness ==
    /\ RiskComputed
    /\ Bullish
    /\ Get(data, "recent_swing_low", None) # None
    /\ Get(data, "recent_swing_high", None) # None
    /\ Val(data["close"]) < Val(data["recent_swing_low"])
    /\ sl_distance = Val(data["atr"])

\* the reason of the first gate that fails, in the order of C16
C16_FirstFailure ==
    IF \E f \in SchemaRequired : f \notin DOMAIN data THEN "data_invalid"
    ELSE IF \E f \in SchemaRequired : data[f] = None THEN "data_invalid"
    ELSE IF data["timeframe"] # Some("4H") THEN "preconditions_not_met"
    ELSE IF NumMet < 3 THEN "not_enough_confluences"
    ELSE IF confidence_score < 7000 THEN "confidence_too_low"
    ELSE IF ~(IF Bullish
                THEN stop_loss < entry_price /\ entry_price < take_profit
                ELSE take_profit < entry_price /\ entry_price < stop_loss)
      THEN "invalid_risk_parameters"
    ELSE "all_conditions_met"

\* C16: every call reports the reason of the first gate that fails, the
\* gates taken in the order missing key, null value, timeframe, confluence
\* count, confidence, SL/TP ordering; all_conditions_met only if none fails.
C16_FirstFailingGate ==
    /\ pc # "raised"
    /\ Returned => result.reason = C16_FirstFailure

\* C17: the RSI confluence is satisfied exactly when rsi_4h is <= 5
\* (bullish) or >= 95 (bearish) in strict mode, and <= 20 or >= 80 when
\* strict_mode is false, null or absent.
C17_StrictThreshold ==
    ConfluenceDone =>
        LET strict == Get(data, "strict_mode", None) = Some(TRUE)
            r == Val(data["rsi_4h"])
        IN  rsi_confluence_met <=>
                IF strict THEN (Bullish /\ r <= 50) \/ (~Bullish /\ r >= 950)
                          ELSE (Bullish /\ r <= 200) \/ (~Bullish /\ r >= 800)

\* strict mode, bullish, rsi_4h = 20: not counted
C17_Witness ==
    /\ ConfluenceDone
    /\ Get(data, "strict_mode", None) = Some(TRUE)
    /\ Bullish
    /\ Val(data["rsi_4h"]) = 200
    /\ ~rsi_confluence_met

\* a matching chart pattern and the divergence flag both hold
C18_BothHold ==
    LET pattern == Get(data, "pattern", None)
    IN  /\ pattern # None
        /\ Lower(Val(pattern)) \in
              (IF Bullish THEN bullish_patterns ELSE bearish_patterns)
        /\ Get(data, "divergence", None) = Some(TRUE)

\* C18 as stated: the count is in 0..4, the pattern-or-divergence slot
\* counts once, and there is one detail string per counted confluence.
C18_OneDetailPerConfluence ==
    ConfluenceDone =>
        /\ confluence_count \in 0..4
        /\ confluence_count = NumMet
        /\ Len(confluence_details) = confluence_count

\* C18 amended: the count is in 0..4, the slot counts once, and there is
\* one detail string per counted confluence plus one more when a matching
\* pattern and the divergence flag both hold.
C18_DetailsPerCondition ==
    ConfluenceDone =>
        /\ confluence_count \in 0..4
        /\ confluence_count = NumMet
        /\ Len(confluence_details) =
              confluence_count + (IF C18_BothHold THEN 1 ELSE 0)

\* 4/4 confluences reported with five detail strings
C18_Witness ==
    /\ ConfluenceDone
    /\ C18_BothHold
    /\ confluence_count = 4
    /\ Len(confluence_details) = 5

\* C19: after the confluence gate the confidence is at least 70.8, so no
\* call returns confidence_too_low.
C19_GateNeverDecides ==
    /\ Scored => confidence_score >= 7080
    /\ Returned => result.reason # "confidence_too_low"

\* the minimum: 3 confluences, daily trend unmet, non-strong candle
C19_Witness ==
    /\ Scored
    /\ confidence_score = 7080
    /\ confluence_count = 3
    /\ ~trend_confluence_met
    /\ candle_score = 1200
=============================================================================
